---- MODULE Spec2Model ----
(***************************************************************************)
(* Model of src/app.py, the GHL time-zone updater: the POST /ghl/webhook   *)
(* handler, the background job it schedules, the field-id resolver and the *)
(* contact updater, with every outbound HTTP request recorded per job.     *)
(*                                                                         *)
(* Payload strings are sequences of one-character strings, so that         *)
(* str(), strip(), upper(), lower() and the f-strings of the handler are   *)
(* computed and not assumed.  Opaque identifiers that the code only passes *)
(* on (time-zone ids, field ids) are TLA+ strings.                         *)
(***************************************************************************)
EXTENDS Naturals, Sequences, FiniteSets, TLC

-----------------------------------------------------------------------------
(* Python values *)

\* None, and a JSON key that is absent (dict.get gives None for both)
NoneV == [t |-> "none"]
\* a str, as its sequence of characters
StrV(s) == [t |-> "str", v |-> s]
\* an int
IntV(n) == [t |-> "int", v |-> n]
\* a dict
DictV(d) == [t |-> "dict", v |-> d]
\* an opaque str (an identifier the code never looks into)
TxtV(s) == [t |-> "txt", v |-> s]
\* a tuple
TupleV(x) == [t |-> "tuple", v |-> x]

\* bool(x), the test of "if v:", "x or y", "not x"
Truthy(x) ==
    CASE x.t = "none" -> FALSE
      [] x.t = "str"  -> x.v # <<>>
      [] x.t = "int"  -> x.v # 0
      [] x.t = "txt"  -> x.v # ""
      [] OTHER        -> TRUE

DigitChars == <<"0", "1", "2", "3", "4", "5", "6", "7", "8", "9">>

RECURSIVE Digits(_)
\* str(n) of a non-negative int
Digits(n) ==
    IF n < 10 THEN <<DigitChars[n + 1]>>
    ELSE Digits(n \div 10) \o <<DigitChars[(n % 10) + 1]>>

\* str(v), as get_first applies it to a truthy value
PyStr(x) == IF x.t = "int" THEN StrV(Digits(x.v)) ELSE x

Whitespace == {" ", "\t", "\n"}

RECURSIVE LStrip(_)
LStrip(s) ==
    IF s # <<>> /\ Head(s) \in Whitespace THEN LStrip(Tail(s)) ELSE s

RECURSIVE RStrip(_)
RStrip(s) ==
    IF s # <<>> /\ s[Len(s)] \in Whitespace
    THEN RStrip(SubSeq(s, 1, Len(s) - 1)) ELSE s

\* str.strip()
Strip(s) == RStrip(LStrip(s))

LowerChars == <<"a", "b", "c", "d", "e", "f", "g", "h", "i", "j", "k", "l", "m",
                "n", "o", "p", "q", "r", "s", "t", "u", "v", "w", "x", "y", "z">>
UpperChars == <<"A", "B", "C", "D", "E", "F", "G", "H", "I", "J", "K", "L", "M",
                "N", "O", "P", "Q", "R", "S", "T", "U", "V", "W", "X", "Y", "Z">>

UpperChar(c) ==
    IF \E k \in DOMAIN LowerChars : LowerChars[k] = c
    THEN UpperChars[CHOOSE k \in DOMAIN LowerChars : LowerChars[k] = c]
    ELSE c

LowerChar(c) ==
    IF \E k \in DOMAIN UpperChars : UpperChars[k] = c
    THEN LowerChars[CHOOSE k \in DOMAIN UpperChars : UpperChars[k] = c]
    ELSE c

\* str.upper()
Upper(s) == [k \in DOMAIN s |-> UpperChar(s[k])]
\* str.lower()
Lower(s) == [k \in DOMAIN s |-> LowerChar(s[k])]

-----------------------------------------------------------------------------
(* Module constants of app.py *)

STATE_TZ_ITEMS ==
    <<
      <<<<"A","L">>, "America/Chicago">>, <<<<"A","K">>, "America/Anchorage">>, <<<<"A","Z">>, "America/Phoenix">>,
      <<<<"A","R">>, "America/Chicago">>, <<<<"C","A">>, "America/Los_Angeles">>, <<<<"C","O">>, "America/Denver">>,
      <<<<"C","T">>, "America/New_York">>, <<<<"D","E">>, "America/New_York">>, <<<<"D","C">>, "America/New_York">>,
      <<<<"F","L">>, "America/New_York">>, <<<<"G","A">>, "America/New_York">>, <<<<"H","I">>, "Pacific/Honolulu">>,
      <<<<"I","D">>, "America/Boise">>, <<<<"I","L">>, "America/Chicago">>, <<<<"I","N">>, "America/Indiana/Indianapolis">>,
      <<<<"I","A">>, "America/Chicago">>, <<<<"K","S">>, "America/Chicago">>, <<<<"K","Y">>, "America/New_York">>,
      <<<<"L","A">>, "America/Chicago">>, <<<<"M","E">>, "America/New_York">>, <<<<"M","D">>, "America/New_York">>,
      <<<<"M","A">>, "America/New_York">>, <<<<"M","I">>, "America/Detroit">>, <<<<"M","N">>, "America/Chicago">>,
      <<<<"M","S">>, "America/Chicago">>, <<<<"M","O">>, "America/Chicago">>, <<<<"M","T">>, "America/Denver">>,
      <<<<"N","E">>, "America/Chicago">>, <<<<"N","V">>, "America/Los_Angeles">>, <<<<"N","H">>, "America/New_York">>,
      <<<<"N","J">>, "America/New_York">>, <<<<"N","M">>, "America/Denver">>, <<<<"N","Y">>, "America/New_York">>,
      <<<<"N","C">>, "America/New_York">>, <<<<"N","D">>, "America/Chicago">>, <<<<"O","H">>, "America/New_York">>,
      <<<<"O","K">>, "America/Chicago">>, <<<<"O","R">>, "America/Los_Angeles">>, <<<<"P","A">>, "America/New_York">>,
      <<<<"R","I">>, "America/New_York">>, <<<<"S","C">>, "America/New_York">>, <<<<"S","D">>, "America/Chicago">>,
      <<<<"T","N">>, "America/Chicago">>, <<<<"T","X">>, "America/Chicago">>, <<<<"U","T">>, "America/Denver">>,
      <<<<"V","T">>, "America/New_York">>, <<<<"V","A">>, "America/New_York">>, <<<<"W","A">>, "America/Los_Angeles">>,
      <<<<"W","V">>, "America/New_York">>, <<<<"W","I">>, "America/Chicago">>, <<<<"W","Y">>, "America/Denver">>
    >>

STATE_TZ_KEYS == {STATE_TZ_ITEMS[k][1] : k \in DOMAIN STATE_TZ_ITEMS}

\* the dict STATE_TZ: state code -> Olson id
STATE_TZ ==
    [s \in STATE_TZ_KEYS |->
        STATE_TZ_ITEMS[CHOOSE k \in DOMAIN STATE_TZ_ITEMS : STATE_TZ_ITEMS[k][1] = s][2]]

\* TZ_FIELD_LABEL with its default (the environment variable is left unset)
TZ_FIELD_LABEL == <<"T", "i", "m", "e", " ", "Z", "o", "n", "e">>

-----------------------------------------------------------------------------
(* Helpers of the webhook handler *)

RECURSIVE FirstTruthy(_, _, _)
\* "for k in keys: v = d.get(k); if v: return str(v)" from position k on;
\* NoneV when the loop ends without returning
FirstTruthy(d, keys, k) ==
    IF k > Len(keys) THEN NoneV
    ELSE IF Truthy(d[keys[k]]) THEN PyStr(d[keys[k]])
    ELSE FirstTruthy(d, keys, k + 1)

\* a lookup that prefers the nested "contact" mapping to the top level
get_first_NestedFirst(payload, keys) ==
    LET top == FirstTruthy(payload, keys, 1)
        c   == payload["contact"]
        sub == IF c.t = "dict" THEN FirstTruthy(c.v, keys, 1) ELSE NoneV
    IN  IF sub.t # "none" THEN sub ELSE top

\* get_first(payload, keys)
get_first(payload, keys) ==
    LET top == FirstTruthy(payload, keys, 1)
        c   == payload["contact"]
    IN  IF top.t # "none" THEN top
        ELSE IF c.t = "dict" THEN FirstTruthy(c.v, keys, 1)
        ELSE NoneV

\* "get_first(...) or ''"
OrEmpty(x) == IF Truthy(x) THEN x.v ELSE <<>>

USA == <<",", " ", "U", "S", "A">>
Sep == <<",", " ">>

\* list.append(x) where the code has list.insert(0, x)
Insert0_Append(list, x) == Append(list, x)

\* list.insert(0, x)
Insert0(list, x) == <<x>> \o list

\* the list "candidates" the handler builds from its four locals
BuildCandidates(zip_code, city, state, address) ==
    LET c0 == <<>>
        c1 == IF zip_code # <<>> THEN Append(c0, zip_code \o USA) ELSE c0
        c2 == IF city # <<>> /\ state # <<>>
              THEN Append(c1, city \o Sep \o state \o USA) ELSE c1
        c3 == IF state # <<>> THEN Append(c2, state \o USA) ELSE c2
    IN  IF address # <<>> /\ (city # <<>> \/ state # <<>>)
        THEN Insert0(c3, address \o Sep \o city \o Sep \o state \o USA)
        ELSE c3

\* the normalisation of the state without upper()
NormState_NoUpper(s) == Strip(s)

\* "(... or '').strip().upper()", the normalisation of the state
NormState(s) == Upper(Strip(s))

\* the handler's locals after lines 157-171
Extract(body) ==
    LET zip_code == OrEmpty(get_first(body, <<"postal_code", "zip">>))
        city     == OrEmpty(get_first(body, <<"city">>))
        state    == NormState(OrEmpty(get_first(body, <<"state">>)))
        address  == OrEmpty(get_first(body, <<"address">>))
    IN  [contact_id |-> get_first(body, <<"contact_id", "id">>),
         zip_code   |-> zip_code,
         city       |-> city,
         state      |-> state,
         address    |-> address,
         candidates |-> BuildCandidates(zip_code, city, state, address)]

-----------------------------------------------------------------------------
(* The field resolver *)

\* the three listing endpoints ensure_tz_field_id tries, by position
LISTING_URLS == <<"/custom-fields", "/customFields", "/locations/{id}/customFields">>

\* the four contact-write endpoints update_contact tries, by position
CONTACT_URLS == <<"/contacts", "/contacts/", "/contacts/upsert", "/contacts/upsert/">>

\* "x or y" on Python values
Or(x, y) == IF Truthy(x) THEN x ELSE y

RECURSIVE ScanFields(_, _)
\* the loop "for f in fields" from position k on: the id of the first field
\* whose label matches, "keyerror" when that field has no "id" key
\* (f["id"] raises), "nomatch" when the loop ends
ScanFields(fields, k) ==
    IF k > Len(fields) THEN [kind |-> "nomatch"]
    ELSE LET f     == fields[k]
             label == Strip(OrEmpty(Or(f.label, Or(f.name, StrV(<<>>)))))
         IN  IF Lower(label) = Lower(Strip(TZ_FIELD_LABEL))
             THEN IF f.id.t = "none" THEN [kind |-> "keyerror"]
                  ELSE [kind |-> "found", id |-> f.id]
             ELSE ScanFields(fields, k + 1)

\* "j.get('customFields') or j.get('fields') or j.get('data') or []"
FieldsOf(j) ==
    IF j.customFields # <<>> THEN j.customFields
    ELSE IF j.fields # <<>> THEN j.fields
    ELSE j.data

RECURSIVE Discover_StopAtNon404(_, _, _)
\* a loop that goes on to the next endpoint after a 404 only and ends at
\* any other answer
Discover_StopAtNon404(listing, k, reqs) ==
    IF k > Len(LISTING_URLS)
    THEN [ret |-> NoneV, reqs |-> reqs]
    ELSE LET resp == listing[k]
             sent == Append(reqs, [kind |-> "list", url |-> LISTING_URLS[k]])
         IN  IF resp.kind = "exc" THEN [ret |-> NoneV, reqs |-> sent]
             ELSE IF resp.status = 404 THEN Discover_StopAtNon404(listing, k + 1, sent)
             ELSE IF resp.status >= 400 THEN [ret |-> NoneV, reqs |-> sent]
             ELSE LET hit == ScanFields(FieldsOf(resp.json), 1)
                  IN  IF hit.kind = "found"
                      THEN [ret |-> hit.id, reqs |-> sent]
                      ELSE [ret |-> NoneV, reqs |-> sent]

RECURSIVE Discover(_, _, _)
\* the loop "for url, params in candidates" of ensure_tz_field_id from
\* endpoint k on, reqs being the listing requests issued so far; gives the
\* value returned, the cache entry written and the requests issued
Discover(listing, k, reqs) ==
    IF k > Len(LISTING_URLS)
    THEN [ret |-> NoneV, reqs |-> reqs]
    ELSE LET resp == listing[k]
             sent == Append(reqs, [kind |-> "list", url |-> LISTING_URLS[k]])
         IN  IF resp.kind = "exc" THEN Discover(listing, k + 1, sent)
             ELSE IF resp.status = 404 THEN Discover(listing, k + 1, sent)
             ELSE IF resp.status >= 400 THEN Discover(listing, k + 1, sent)
             ELSE LET hit == ScanFields(FieldsOf(resp.json), 1)
                  IN  IF hit.kind = "found"
                      THEN [ret |-> hit.id, reqs |-> sent]
                      ELSE Discover(listing, k + 1, sent)

\* the cache test with another key than the one the cache is written under
CacheHit_WrongKey(cache) == "tz_id" \in DOMAIN cache

\* a cache test that takes a cached None for a missing entry
CacheHit_Truthy(cache) == "tz" \in DOMAIN cache /\ Truthy(cache["tz"])

\* the test "'tz' in _cache_field_ids"
CacheHit(cache) == "tz" \in DOMAIN cache

\* ensure_tz_field_id(): the value returned, the cache afterwards and the
\* listing requests issued
ensure_tz_field_id(cache, listing) ==
    IF CacheHit(cache)
    THEN [ret |-> cache["tz"], cache |-> cache, reqs |-> <<>>]
    ELSE LET d == Discover(listing, 1, <<>>)
         IN  [ret |-> d.ret, cache |-> [k \in {"tz"} |-> d.ret], reqs |-> d.reqs]

\* the module-level initialisation of _cache_field_ids
InitialCache(env_id) == [k \in {"tz"} |-> env_id]

\* the JSON body without the test of tz_name before the second custom field
ContactPayload_NameAlways(contact_id, tz_id, tz_name, cf_id, name_field_id) ==
    LET cf0 == <<>>
        cf1 == IF Truthy(cf_id) THEN Append(cf0, [id |-> cf_id, value |-> tz_id]) ELSE cf0
        cf2 == IF Truthy(name_field_id)
               THEN Append(cf1, [id |-> name_field_id, value |-> tz_name]) ELSE cf1
    IN  IF cf2 # <<>>
        THEN [id |-> contact_id, timeZone |-> tz_id, customFields |-> cf2]
        ELSE [id |-> contact_id, timeZone |-> tz_id]

\* update_contact without its test "if cf_id"
ContactPayload_FieldAlways(contact_id, tz_id, tz_name, cf_id, name_field_id) ==
    LET cf0 == <<>>
        cf1 == Append(cf0, [id |-> cf_id, value |-> tz_id])
        cf2 == IF Truthy(tz_name) /\ Truthy(name_field_id)
               THEN Append(cf1, [id |-> name_field_id, value |-> tz_name]) ELSE cf1
    IN  IF cf2 # <<>>
        THEN [id |-> contact_id, timeZone |-> tz_id, customFields |-> cf2]
        ELSE [id |-> contact_id, timeZone |-> tz_id]

\* the JSON body update_contact posts
ContactPayload(contact_id, tz_id, tz_name, cf_id, name_field_id) ==
    LET cf0 == <<>>
        cf1 == IF Truthy(cf_id) THEN Append(cf0, [id |-> cf_id, value |-> tz_id]) ELSE cf0
        cf2 == IF Truthy(tz_name) /\ Truthy(name_field_id)
               THEN Append(cf1, [id |-> name_field_id, value |-> tz_name]) ELSE cf1
    IN  IF cf2 # <<>>
        THEN [id |-> contact_id, timeZone |-> tz_id, customFields |-> cf2]
        ELSE [id |-> contact_id, timeZone |-> tz_id]

-----------------------------------------------------------------------------
(* Inputs *)

\* the number of request slots (requests the process holds at a time)
MaxJobs == 2

Jobs == 1 .. MaxJobs

C1s     == <<"c", "1">>
C2s     == <<"c", "2">>
C3s     == <<"c", "3">>
Zip1    == <<"9", "4", "1", "0", "5">>
Zip2    == <<"1", "0", "0", "0", "1">>
Street  == <<"9", " ", "E", "l", "m">>
Mesa    == <<"M", "e", "s", "a">>

\* a JSON object with none of the keys the handler reads
EmptyContact ==
    [contact_id |-> NoneV, id |-> NoneV, address |-> NoneV, city |-> NoneV,
     state |-> NoneV, postal_code |-> NoneV, zip |-> NoneV]

EmptyBody ==
    [contact_id |-> NoneV, id |-> NoneV, address |-> NoneV, city |-> NoneV,
     state |-> NoneV, postal_code |-> NoneV, zip |-> NoneV, contact |-> NoneV]

\* request bodies without a contact id
BodiesNoId ==
    { EmptyBody,
      [EmptyBody EXCEPT !.id = StrV(<<>>), !.contact = StrV(<<"x">>)],
      [EmptyBody EXCEPT !.id = IntV(0), !.state = StrV(<<"a", "z">>),
                        !.contact = DictV(EmptyContact)],
      [EmptyBody EXCEPT !.postal_code = StrV(Zip1),
                        !.contact = DictV([EmptyContact EXCEPT !.contact_id = StrV(<<>>),
                                                               !.city = StrV(Mesa)])] }

\* request bodies with a contact id and no address candidate
BodiesNoAddress ==
    { [EmptyBody EXCEPT !.contact_id = StrV(C1s)],
      [EmptyBody EXCEPT !.id = StrV(C2s), !.state = StrV(<<" ">>), !.zip = StrV(<<>>)],
      [EmptyBody EXCEPT !.contact_id = StrV(C1s), !.address = StrV(Street)],
      [EmptyBody EXCEPT !.contact = DictV([EmptyContact EXCEPT !.id = IntV(7)])] }

\* request bodies with a contact id and at least one address candidate
BodiesWithAddress ==
    { [EmptyBody EXCEPT !.contact_id = StrV(C1s), !.postal_code = StrV(Zip1)],
      [EmptyBody EXCEPT !.id = StrV(C2s), !.state = StrV(<<"a", "z">>)],
      [EmptyBody EXCEPT !.id = StrV(C2s), !.city = StrV(Mesa),
                        !.state = StrV(<<" ", "z", "Z", "\t">>)],
      [EmptyBody EXCEPT !.contact_id = StrV(C1s), !.id = StrV(C2s),
                        !.address = StrV(Street), !.city = StrV(Mesa),
                        !.state = StrV(<<"A", "z">>)],
      [EmptyBody EXCEPT !.contact_id = StrV(C1s), !.address = StrV(Street),
                        !.city = StrV(Mesa)],
      [EmptyBody EXCEPT !.id = StrV(<<>>), !.postal_code = IntV(85001),
                        !.contact = DictV([EmptyContact EXCEPT !.id = StrV(C3s),
                                                               !.zip = StrV(Zip2),
                                                               !.state = StrV(<<"n", "y">>)])] }

\* the request bodies the webhook receives
Payloads == BodiesNoId \cup BodiesNoAddress \cup BodiesWithAddress

\* every combination of a few values per key, for the handler taken alone
AllBodies ==
    [contact_id  : {NoneV, StrV(C1s)},
     id          : {NoneV, StrV(<<>>), StrV(C2s)},
     address     : {NoneV, StrV(Street)},
     city        : {NoneV, StrV(<<>>), StrV(Mesa)},
     state       : {NoneV, StrV(<<" ">>), StrV(<<"a", "z">>), StrV(<<" ", "z", "Z", "\t">>)},
     postal_code : {NoneV, StrV(Zip1), IntV(85001)},
     zip         : {NoneV, StrV(Zip2)},
     contact     : {NoneV, StrV(<<"x">>), DictV(EmptyContact),
                    DictV([EmptyContact EXCEPT !.contact_id = StrV(C3s),
                                               !.address = StrV(<<"7">>),
                                               !.city = StrV(<<"B", "o", "i">>),
                                               !.state = StrV(<<"n", "y">>),
                                               !.zip = IntV(0)])}]

\* what geocode() can return on success: (lat, lng), (0.0, 0.0) included
Coords == { TupleV(<<0, 0>>), TupleV(<<37, 122>>) }

\* what tz_for() can return on success: (timeZoneId, timeZoneName); the name
\* is j.get("timeZoneName"), None when the key is missing
TzResults ==
    { TupleV(<<TxtV("America/Los_Angeles"), TxtV("Pacific Daylight Time")>>),
      TupleV(<<TxtV("America/Denver"), NoneV>>),
      TupleV(<<TxtV("America/Chicago"), TxtV("")>>) }

\* values of the optional environment variables TZ_FIELD_ID, TZ_NAME_FIELD_ID
EnvFieldIds == { NoneV, TxtV("fld_env") }
EnvNameFieldIds == { NoneV, TxtV("fld_name") }

\* custom fields the CRM may list
FieldTz    == [label |-> StrV(<<" ", "t", "i", "m", "e", " ", "z", "o", "n", "e">>),
               name |-> NoneV, id |-> TxtV("fld_tz")]
FieldTzByName == [label |-> NoneV,
               name |-> StrV(<<"T", "I", "M", "E", " ", "Z", "O", "N", "E">>),
               id |-> TxtV("fld_tz2")]
FieldOther == [label |-> StrV(<<"Z", "o", "n", "e">>), name |-> NoneV, id |-> TxtV("fld_x")]
FieldNoId  == [label |-> StrV(TZ_FIELD_LABEL), name |-> NoneV, id |-> NoneV]

\* responses of a listing endpoint
Resp404     == [kind |-> "http", status |-> 404]
Resp500     == [kind |-> "http", status |-> 500]
RespExc     == [kind |-> "exc"]
RespFields(cf, fs, data) ==
    [kind |-> "http", status |-> 200,
     json |-> [customFields |-> cf, fields |-> fs, data |-> data]]

\* the CRM's answers on the three listing endpoints
Listings ==
    { <<RespFields(<<FieldOther, FieldTz>>, <<>>, <<>>), Resp404, Resp404>>,
      <<Resp404, RespFields(<<>>, <<FieldOther>>, <<>>),
                 RespFields(<<>>, <<>>, <<FieldTzByName>>)>> }

-----------------------------------------------------------------------------
(* State *)

VARIABLES
    TZ_FIELD_ID_ENV,    \* os.getenv("TZ_FIELD_ID")
    TZ_NAME_FIELD_ID,   \* os.getenv("TZ_NAME_FIELD_ID")
    listing,            \* the CRM's answers on the listing endpoints
    cache_field_ids,    \* the module-level dict _cache_field_ids
    ensure_results,     \* the values ensure_tz_field_id has returned so far
    pc,                 \* per slot: where the request or its job stands
    body,               \* per slot: the request body received
    response,           \* per slot: the HTTP response sent
    tasks,              \* per slot: the tasks added to the request's BackgroundTasks
    job,                \* per slot: the closure variables and locals of job()
    updates,            \* per slot: the arguments update_contact was called with
    calls,              \* per slot: the outbound requests issued, in order
    printed,            \* per slot: the lines printed, in order
    health_response     \* the last answer of GET /health

vars == <<TZ_FIELD_ID_ENV, TZ_NAME_FIELD_ID, listing, cache_field_ids,
          ensure_results, pc, body, response, tasks, job, updates, calls, printed,
          health_response>>

env == <<TZ_FIELD_ID_ENV, TZ_NAME_FIELD_ID, listing>>

\* the locals of a request that has not been received
NoJob ==
    [contact_id |-> NoneV, zip_code |-> <<>>, city |-> <<>>, state |-> <<>>,
     address |-> <<>>, candidates |-> <<>>,
     idx |-> 0, coords |-> NoneV, tz_id |-> NoneV, tz_name |-> NoneV,
     cf_id |-> NoneV, ensure_call |-> "none", payload |-> NoneV, url |-> 0,
     status |-> NoneV]

Init ==
    /\ TZ_FIELD_ID_ENV \in EnvFieldIds
    /\ TZ_NAME_FIELD_ID \in EnvNameFieldIds
    /\ listing \in Listings
    /\ cache_field_ids = InitialCache(TZ_FIELD_ID_ENV)
    /\ ensure_results = {}
    /\ pc = [r \in Jobs |-> "idle"]
    /\ body = [r \in Jobs |-> NoneV]
    /\ response = [r \in Jobs |-> NoneV]
    /\ tasks = [r \in Jobs |-> <<>>]
    /\ job = [r \in Jobs |-> NoJob]
    /\ updates = [r \in Jobs |-> <<>>]
    /\ calls = [r \in Jobs |-> <<>>]
    /\ printed = [r \in Jobs |-> <<>>]
    /\ health_response = NoneV

-----------------------------------------------------------------------------
(* POST /ghl/webhook *)

\* slot r holds no request that is still being served
Free(r) == pc[r] \in {"idle", "rejected", "done"}

\* the handler without its test of the contact id
MissingContactId_Unchecked(contact_id) == FALSE

\* the handler's test "if not contact_id"
MissingContactId(contact_id) == ~Truthy(contact_id)

\* an acknowledgement that leaves out "queued"
AcceptedResponse_NoQueued == [ok |-> TRUE]

\* the handler's two return values
AcceptedResponse == [ok |-> TRUE, queued |-> TRUE]
RejectedResponse == [ok |-> FALSE, error |-> "missing contact_id"]

\* ghl_webhook with request body p, served in slot r: the response is sent
\* and, for an accepted body, job() is handed to the background tasks, which
\* run after the response
ghl_webhook(r, p) ==
    /\ Free(r)
    /\ body' = [body EXCEPT ![r] = p]
    /\ calls' = [calls EXCEPT ![r] = <<>>]
    /\ printed' = [printed EXCEPT ![r] = <<>>]
    /\ updates' = [updates EXCEPT ![r] = <<>>]
    /\ IF MissingContactId(get_first(p, <<"contact_id", "id">>))
       THEN /\ response' = [response EXCEPT ![r] = RejectedResponse]
            /\ tasks' = [tasks EXCEPT ![r] = <<>>]
            /\ job' = [job EXCEPT ![r] = NoJob]
            /\ pc' = [pc EXCEPT ![r] = "rejected"]
       ELSE LET x == Extract(p)
            IN  /\ response' = [response EXCEPT ![r] = AcceptedResponse]
                /\ tasks' = [tasks EXCEPT ![r] = <<"job">>]
                /\ job' = [job EXCEPT ![r] =
                              [NoJob EXCEPT !.contact_id = x.contact_id,
                                            !.zip_code = x.zip_code,
                                            !.city = x.city,
                                            !.state = x.state,
                                            !.address = x.address,
                                            !.candidates = x.candidates]]
                /\ pc' = [pc EXCEPT ![r] = "queued"]
    /\ UNCHANGED <<env, health_response, cache_field_ids, ensure_results>>

\* a health route that reports a failure
health_Down == [ok |-> FALSE]

\* GET /health
health == [ok |-> TRUE]

\* a GET /health request is served: the route returns its value and touches
\* nothing else
Health ==
    /\ health_response' = health
    /\ UNCHANGED <<env, cache_field_ids, ensure_results, pc, body, response, tasks, job,
                   updates, calls, printed>>

-----------------------------------------------------------------------------
(* job() *)

\* where the candidate loop goes with index k: on, or past its end
LoopAt(j, k) == IF k > Len(j.candidates) THEN "fallback" ELSE "geocode"

\* a loop that stays on the candidate it has just tried
NextIndex_Same(k) == k

\* "for a in candidates": the position of the candidate after position k
NextIndex(k) == k + 1

\* the background task starts: tz_id = tz_name = None, the loop begins
JobStart(r) ==
    /\ pc[r] = "queued"
    /\ tasks[r] # <<>>
    /\ job' = [job EXCEPT ![r].idx = 1, ![r].tz_id = NoneV, ![r].tz_name = NoneV]
    /\ pc' = [pc EXCEPT ![r] = LoopAt(job[r], 1)]
    /\ UNCHANGED <<env, health_response, cache_field_ids, ensure_results, body, response,
                   tasks, updates, calls, printed>>

\* one pass of "for a in candidates" up to geocode(a): the request is issued
\* and returns coordinates, or None (no results, HTTP error, exception)
Geocode(r) ==
    /\ pc[r] = "geocode"
    /\ LET j == job[r]
           a == j.candidates[j.idx]
       IN  IF a = <<>>
           THEN /\ job' = [job EXCEPT ![r].idx = NextIndex(j.idx)]
                /\ pc' = [pc EXCEPT ![r] = LoopAt(j, NextIndex(j.idx))]
                /\ calls' = calls
           ELSE \/ \E c \in Coords :
                     /\ calls' = [calls EXCEPT ![r] =
                                    Append(@, [kind |-> "geocode", arg |-> a, ok |-> TRUE])]
                     /\ job' = [job EXCEPT ![r].coords = c]
                     /\ pc' = [pc EXCEPT ![r] = "tz"]
                \/ /\ calls' = [calls EXCEPT ![r] =
                                    Append(@, [kind |-> "geocode", arg |-> a, ok |-> FALSE])]
                   /\ job' = [job EXCEPT ![r].idx = NextIndex(j.idx), ![r].coords = NoneV]
                   /\ pc' = [pc EXCEPT ![r] = LoopAt(j, NextIndex(j.idx))]
    /\ UNCHANGED <<env, health_response, cache_field_ids, ensure_results, body, response,
                   tasks, updates, printed>>

\* tz_for(*coords): the request is issued and returns (tz_id, tz_name), which
\* ends the loop, or None (status not OK, HTTP error, exception).  The log
\* names the candidate the coordinates came from; coords is not read again
\* before geocode() next assigns it, so its old value is dropped here.
TzFor(r) ==
    /\ pc[r] = "tz"
    /\ LET j == job[r]
           sent(res) == [kind |-> "timezone", for |-> j.candidates[j.idx], result |-> res]
       IN  \/ \E tz \in TzResults :
                /\ calls' = [calls EXCEPT ![r] = Append(@, sent(tz))]
                /\ job' = [job EXCEPT ![r].tz_id = tz.v[1], ![r].tz_name = tz.v[2],
                                      ![r].coords = NoneV]
                /\ pc' = [pc EXCEPT ![r] = "fallback"]
           \/ /\ calls' = [calls EXCEPT ![r] = Append(@, sent(NoneV))]
              /\ job' = [job EXCEPT ![r].idx = NextIndex(j.idx), ![r].coords = NoneV]
              /\ pc' = [pc EXCEPT ![r] = LoopAt(j, NextIndex(j.idx))]
    /\ UNCHANGED <<env, health_response, cache_field_ids, ensure_results, body, response,
                   tasks, updates, printed>>

\* the test "state in STATE_TZ"
InStateTable(state) == state \in DOMAIN STATE_TZ

\* the fallback test without "not tz_id"
UseFallback_Always(tz_id, state) == InStateTable(state)

\* the test "not tz_id and state in STATE_TZ"
UseFallback(tz_id, state) == ~Truthy(tz_id) /\ InStateTable(state)

\* the job without the raise
Unresolved_Never(tz_id) == FALSE

\* the test "if not tz_id" before the raise
Unresolved(tz_id) == ~Truthy(tz_id)

\* one zone for every state in place of the table's entry
FallbackTz_Default(state) == "America/New_York"

\* "STATE_TZ[state]"
FallbackTz(state) == STATE_TZ[state]

\* after the loop: the state-table fallback, then the HTTPException(400) when
\* there is still no tz_id, which the job's except clause prints
Fallback(r) ==
    /\ pc[r] = "fallback"
    /\ LET j    == job[r]
           fall == UseFallback(j.tz_id, j.state)
           id   == IF fall THEN TxtV(FallbackTz(j.state)) ELSE j.tz_id
           name == IF fall THEN NoneV ELSE j.tz_name
       IN  /\ job' = [job EXCEPT ![r].tz_id = id, ![r].tz_name = name]
           /\ IF Unresolved(id)
              THEN /\ printed' = [printed EXCEPT ![r] =
                          Append(@, [line |-> "ERROR", err |-> "No geocoding results"])]
                   /\ pc' = [pc EXCEPT ![r] = "done"]
              ELSE /\ printed' = printed
                   /\ pc' = [pc EXCEPT ![r] = "update"]
    /\ UNCHANGED <<env, health_response, cache_field_ids, ensure_results, body, response,
                   tasks, updates, calls>>

-----------------------------------------------------------------------------
(* update_contact(contact_id, tz_id, tz_name) *)

\* the call of update_contact up to its loop: the field id is resolved and
\* the JSON body built
UpdateContact(r) ==
    /\ pc[r] = "update"
    /\ LET j == job[r]
           e == ensure_tz_field_id(cache_field_ids, listing)
       IN  /\ cache_field_ids' = e.cache
           /\ ensure_results' = ensure_results \cup {e.ret}
           /\ calls' = [calls EXCEPT ![r] = @ \o e.reqs]
           /\ updates' = [updates EXCEPT ![r] = Append(@, <<j.contact_id, j.tz_id, j.tz_name>>)]
           /\ job' = [job EXCEPT ![r].cf_id = e.ret,
                                 ![r].ensure_call = IF ensure_results = {} THEN "first"
                                                    ELSE "later",
                                 ![r].payload = ContactPayload(j.contact_id, j.tz_id,
                                                    j.tz_name, e.ret, TZ_NAME_FIELD_ID),
                                 ![r].url = 1]
    /\ pc' = [pc EXCEPT ![r] = "post"]
    /\ UNCHANGED <<env, health_response, body, response, tasks, printed>>

\* every status that is not an HTTP error taken for a success
PostSucceeded_NonError(status) == status < 400

\* the test "r.status_code < 300" on a response
PostSucceeded(status) == status < 300

\* statuses a contact-write endpoint may answer with: success, a redirect
\* that requests hands back as it is, a client error
PostStatuses == {200, 302, 404}

\* update_contact returning normally after its loop, so that the job goes on
\* to print its result
ExhaustedOutcome_NoRaise(j) ==
    << [line |-> "OK", tz_id |-> j.tz_id, tz_name |-> j.tz_name] >>

\* what is printed once the loop of update_contact has ended without a
\* return: the HTTPException(502) raised there reaches the except clause of
\* the job, which prints it
ExhaustedOutcome(j) ==
    << [line |-> "ERROR", err |-> "All contact POST variants failed"] >>

\* one pass of "for url in [...]": the POST is issued; a status below 300
\* ends update_contact and the job prints its result; any other status or an
\* exception is printed and the next url is tried; after the last url the
\* loop ends.  status is r.status_code of the last response, "exc" when the
\* request raised.
Post(r) ==
    /\ pc[r] = "post"
    /\ LET j    == job[r]
           sent(ok) == [kind |-> "post", url |-> CONTACT_URLS[j.url], json |-> j.payload,
                        ok |-> ok]
           fail(st) ==
               /\ calls' = [calls EXCEPT ![r] = Append(@, sent(FALSE))]
               /\ IF j.url = Len(CONTACT_URLS)
                  THEN /\ printed' = [printed EXCEPT ![r] =
                              Append(@, [line |-> "UPDATE-ERR", url |-> CONTACT_URLS[j.url]])
                                  \o ExhaustedOutcome(j)]
                       /\ job' = [job EXCEPT ![r].status = st]
                       /\ pc' = [pc EXCEPT ![r] = "done"]
                  ELSE /\ printed' = [printed EXCEPT ![r] =
                              Append(@, [line |-> "UPDATE-ERR", url |-> CONTACT_URLS[j.url]])]
                       /\ job' = [job EXCEPT ![r].url = j.url + 1, ![r].status = st]
                       /\ pc' = pc
       IN  \/ \E status \in PostStatuses :
                   IF PostSucceeded(status)
                   THEN /\ calls' = [calls EXCEPT ![r] = Append(@, sent(TRUE))]
                        /\ printed' = [printed EXCEPT ![r] =
                               @ \o << [line |-> "Updated", tz_id |-> j.tz_id],
                                       [line |-> "OK", tz_id |-> j.tz_id, tz_name |-> j.tz_name] >>]
                        /\ job' = [job EXCEPT ![r].status = IntV(status)]
                        /\ pc' = [pc EXCEPT ![r] = "done"]
                   ELSE fail(IntV(status))
           \/ fail(TxtV("exc"))
    /\ UNCHANGED <<env, health_response, cache_field_ids, ensure_results, body, response,
                   tasks, updates>>

-----------------------------------------------------------------------------
(* Specification: requests arrive one after the other, each served in     *)
(* slot 1 once the job of the one before has ended                         *)

Next ==
    \/ \E p \in Payloads : ghl_webhook(1, p)
    \/ JobStart(1)
    \/ Geocode(1)
    \/ TzFor(1)
    \/ Fallback(1)
    \/ UpdateContact(1)
    \/ Post(1)

Spec == Init /\ [][Next]_vars

-----------------------------------------------------------------------------
(* Specification: the webhook and its job, with GET /health served at any  *)
(* moment                                                                  *)

NextHealth == Next \/ Health

SpecHealth == Init /\ [][NextHealth]_vars

-----------------------------------------------------------------------------
(* Specification: one request and its job, the job scheduled fairly.  The  *)
(* background task is run once the response is sent, and each outbound     *)
(* request has a timeout, so a job that can take a step takes one.         *)

\* a body that yields all four candidates, one that yields one candidate and
\* a state of the table, and one that yields nothing to look up
LivePayloads ==
    { [EmptyBody EXCEPT !.contact_id = StrV(C1s), !.address = StrV(Street),
                        !.city = StrV(Mesa), !.state = StrV(<<"a", "z">>),
                        !.postal_code = StrV(Zip1)],
      [EmptyBody EXCEPT !.id = StrV(C2s), !.state = StrV(<<"n", "y">>)],
      [EmptyBody EXCEPT !.contact_id = StrV(C1s)] }

\* a step of the background job of slot r
JobStep(r) ==
    \/ JobStart(r)
    \/ Geocode(r)
    \/ TzFor(r)
    \/ Fallback(r)
    \/ UpdateContact(r)
    \/ Post(r)

NextLive ==
    \/ pc[1] = "idle" /\ \E p \in LivePayloads : ghl_webhook(1, p)
    \/ JobStep(1)

SpecLive == Init /\ [][NextLive]_vars /\ WF_vars(JobStep(1))

-----------------------------------------------------------------------------
(* Specification: ensure_tz_field_id as a function of the cache and of the *)
(* answers of the three listing endpoints, the cache without its entry     *)
(* "tz" included; each slot calls it once.                                 *)

\* _cache_field_ids without an entry
EmptyCache == [k \in {} |-> NoneV]

\* the answers one listing endpoint may give
ListingResponses ==
    { Resp404, Resp500, RespExc,
      RespFields(<<FieldOther, FieldTz>>, <<>>, <<>>),
      RespFields(<<>>, <<FieldOther>>, <<>>),
      RespFields(<<>>, <<>>, <<FieldTzByName>>),
      RespFields(<<>>, <<FieldNoId, FieldTz>>, <<>>) }

InitResolver ==
    /\ TZ_FIELD_ID_ENV \in EnvFieldIds
    /\ TZ_NAME_FIELD_ID = NoneV
    /\ listing \in [DOMAIN LISTING_URLS -> ListingResponses]
    /\ cache_field_ids \in {EmptyCache, InitialCache(TZ_FIELD_ID_ENV)}
    /\ ensure_results = {}
    /\ pc = [r \in Jobs |-> "idle"]
    /\ body = [r \in Jobs |-> NoneV]
    /\ response = [r \in Jobs |-> NoneV]
    /\ tasks = [r \in Jobs |-> <<>>]
    /\ job = [r \in Jobs |-> NoJob]
    /\ updates = [r \in Jobs |-> <<>>]
    /\ calls = [r \in Jobs |-> <<>>]
    /\ printed = [r \in Jobs |-> <<>>]
    /\ health_response = NoneV

\* slot r calls ensure_tz_field_id()
Ensure(r) ==
    /\ pc[r] = "idle"
    /\ LET e == ensure_tz_field_id(cache_field_ids, listing)
       IN  /\ cache_field_ids' = e.cache
           /\ ensure_results' = ensure_results \cup {e.ret}
           /\ calls' = [calls EXCEPT ![r] = @ \o e.reqs]
           /\ job' = [job EXCEPT ![r].cf_id = e.ret,
                                 ![r].ensure_call = IF ensure_results = {} THEN "first"
                                                    ELSE "later"]
    /\ pc' = [pc EXCEPT ![r] = "done"]
    /\ UNCHANGED <<env, health_response, body, response, tasks, updates, printed>>

NextResolver == \E r \in Jobs : Ensure(r)

SpecResolver == InitResolver /\ [][NextResolver]_vars

-----------------------------------------------------------------------------
(* Specification: the handler alone, on one request drawn from AllBodies   *)

InitHandler ==
    /\ Init
    /\ TZ_FIELD_ID_ENV = NoneV
    /\ TZ_NAME_FIELD_ID = NoneV
    /\ listing[1] = Resp404

NextHandler ==
    /\ pc[1] = "idle"
    /\ \E p \in AllBodies : ghl_webhook(1, p)

SpecHandler == InitHandler /\ [][NextHandler]_vars

-----------------------------------------------------------------------------
(* Specification: requests served concurrently.  Every slot receives one   *)
(* request; the background jobs of the slots interleave at their outbound  *)
(* requests and share _cache_field_ids.  What one job does on each answer  *)
(* of the upstream services is the matter of Spec; here the answers are    *)
(* few, so that every interleaving of the jobs is gone through.            *)

\* the bodies of the concurrent requests: one resolved by a lookup, one by
\* the state table; both slots may receive the same body
ConcPayloads ==
    { [EmptyBody EXCEPT !.contact_id = StrV(C1s), !.postal_code = StrV(Zip1)],
      [EmptyBody EXCEPT !.id = StrV(C2s), !.state = StrV(<<"a", "z">>)] }

\* the answers of the upstream services to the concurrent jobs: a time-zone
\* lookup fails or returns one zone, a contact write is answered 200 or 404
ConcTzIds == { NoneV, TxtV("America/Los_Angeles") }
ConcStatuses == { IntV(200), IntV(404) }

InitConc ==
    /\ Init
    /\ TZ_NAME_FIELD_ID = NoneV
    /\ listing[1] # Resp404

NextConc ==
    \E r \in Jobs :
        \/ pc[r] = "idle" /\ \E p \in ConcPayloads : ghl_webhook(r, p)
        \/ JobStart(r)
        \/ Geocode(r)
        \/ TzFor(r) /\ job'[r].tz_id \in ConcTzIds
        \/ Fallback(r)
        \/ UpdateContact(r)
        \/ Post(r) /\ job'[r].status \in ConcStatuses

SpecConc == InitConc /\ [][NextConc]_vars

-----------------------------------------------------------------------------
(* Properties of the webhook handler *)

IdKeys == {"contact_id", "id"}
AddressKeys == {"address", "city", "state", "postal_code", "zip"}

\* key k is absent or empty in body b, at the top level and under "contact"
Absent(b, k) ==
    /\ ~Truthy(b[k])
    /\ b.contact.t = "dict" => ~Truthy(b.contact.v[k])

\* slot r holds a request that has been received
Received(r) == pc[r] # "idle"

HasContactId(b) == \E k \in IdKeys : ~Absent(b, k)
HasAddressField(b) == \E k \in AddressKeys : ~Absent(b, k)

\* the response is {"ok": false, "error": <reason>}
IsRejection(resp) ==
    /\ DOMAIN resp = {"ok", "error"}
    /\ resp.ok = FALSE

\* the response is {"ok": true, "queued": true}
IsAcceptance(resp) ==
    /\ DOMAIN resp = {"ok", "queued"}
    /\ resp.ok = TRUE
    /\ resp.queued = TRUE

\* C1 (as claimed): a body with a contact id and no address-bearing field is
\* answered with ok=false and an error, and no background job is scheduled.
C1_NoAddressRejected ==
    \A r \in Jobs :
        (Received(r) /\ HasContactId(body[r]) /\ ~HasAddressField(body[r]))
            => (IsRejection(response[r]) /\ tasks[r] = <<>>)

\* C2: a body with no non-empty contact id (top level or nested) is answered
\* with ok=false and an error, schedules no job, and no outbound request is
\* ever issued for it.
C2_NoContactIdRejected ==
    \A r \in Jobs :
        (Received(r) /\ ~HasContactId(body[r]))
            => /\ IsRejection(response[r])
               /\ pc[r] = "rejected"
               /\ tasks[r] = <<>>
               /\ calls[r] = <<>>
               /\ updates[r] = <<>>

\* C2 witness: a body whose nested contact mapping was searched and that
\* carries address fields has been rejected for its missing contact id
C2_Witness ==
    \E r \in Jobs :
        /\ pc[r] = "rejected"
        /\ body[r].contact.t = "dict"
        /\ HasAddressField(body[r])

InJob(r) == pc[r] \in {"queued", "geocode", "tz", "fallback", "update", "post"}

\* C3: an accepted request is answered {"ok": true, "queued": true} with
\* exactly one background job scheduled; the response exists before the job
\* issues any outbound request, and no step of the job changes it.
C3_AcceptedQueuedOnce ==
    /\ [](\A r \in Jobs :
            /\ (Received(r) /\ HasContactId(body[r]))
                  => (IsAcceptance(response[r]) /\ tasks[r] = <<"job">>)
            /\ (calls[r] # <<>> \/ updates[r] # <<>>) => IsAcceptance(response[r]))
    /\ [][\A r \in Jobs :
            /\ InJob(r) => (response'[r] = response[r] /\ tasks'[r] = tasks[r])
            /\ Len(calls'[r]) > Len(calls[r]) => (InJob(r) /\ IsAcceptance(response[r]))]_vars

\* C3 witness: a job has ended with every contact write refused, and the
\* request's response is still the acknowledgement
C3_Witness ==
    \E r \in Jobs :
        /\ pc[r] = "done"
        /\ Len(calls[r]) >= 5
        /\ \E k \in DOMAIN printed[r] :
              /\ printed[r][k].line = "ERROR"
              /\ printed[r][k].err = "All contact POST variants failed"
        /\ IsAcceptance(response[r])

\* the four candidate strings in their fixed order, each with the condition
\* under which it is included, for the handler's locals j
CandidateTable(j) ==
    << [inc |-> j.address # <<>> /\ (j.city # <<>> \/ j.state # <<>>),
        str |-> j.address \o <<",", " ">> \o j.city \o <<",", " ">> \o j.state
                    \o <<",", " ", "U", "S", "A">>],
       [inc |-> j.zip_code # <<>>,
        str |-> j.zip_code \o <<",", " ", "U", "S", "A">>],
       [inc |-> j.city # <<>> /\ j.state # <<>>,
        str |-> j.city \o <<",", " ">> \o j.state \o <<",", " ", "U", "S", "A">>],
       [inc |-> j.state # <<>>,
        str |-> j.state \o <<",", " ", "U", "S", "A">>] >>

Included(c) == c.inc

\* the included candidates, in the table's order
ExpectedCandidates(j) ==
    LET sel == SelectSeq(CandidateTable(j), Included)
    IN  [k \in DOMAIN sel |-> sel[k].str]

-----------------------------------------------------------------------------
(* Properties of the background job *)

\* slot r holds an accepted request
Accepted(r) == Received(r) /\ pc[r] # "rejected"

IsGeocode(c) == c.kind = "geocode"
IsLookup(c) == c.kind \in {"geocode", "timezone"}
IsCrm(c) == c.kind \in {"list", "post"}

\* position k of the log of slot r is a time-zone lookup that succeeded
TzSuccessAt(r, k) ==
    /\ k \in DOMAIN calls[r]
    /\ calls[r][k].kind = "timezone"
    /\ calls[r][k].result # NoneV

\* no time-zone lookup of slot r has succeeded
AllFailed(r) == \A k \in DOMAIN calls[r] : ~TzSuccessAt(r, k)

\* the contact id of the request in slot r
RequestContactId(r) == get_first(body[r], <<"contact_id", "id">>)

\* the state of the request in slot r, trimmed and upper-cased
RequestState(r) == Upper(Strip(OrEmpty(get_first(body[r], <<"state">>))))

\* C5: geocode requests go out for the candidates in list order; a time-zone
\* request follows only a successful geocode of the same candidate; after the
\* first candidate with both lookups successful no further geocode or
\* time-zone request is issued, and update_contact is called with exactly
\* that lookup's (tz_id, tz_name) and the request's contact id.
C5_FirstSuccessWins ==
    \A r \in Jobs :
        Accepted(r) =>
            LET log == calls[r]
                geo == SelectSeq(log, IsGeocode)
            IN  /\ Len(geo) <= Len(job[r].candidates)
                /\ \A k \in DOMAIN geo : geo[k].arg = job[r].candidates[k]
                /\ \A k \in DOMAIN log :
                      log[k].kind = "timezone" =>
                          /\ k > 1
                          /\ log[k - 1].kind = "geocode"
                          /\ log[k - 1].ok
                          /\ log[k - 1].arg = log[k].for
                /\ \A k \in DOMAIN log :
                      TzSuccessAt(r, k) =>
                          /\ \A m \in DOMAIN log : m > k => ~IsLookup(log[m])
                          /\ pc[r] \notin {"geocode", "tz"}
                          /\ \A u \in DOMAIN updates[r] :
                                updates[r][u] = <<RequestContactId(r), log[k].result.v[1],
                                                  log[k].result.v[2]>>
                          /\ pc[r] \in {"post", "done"} => Len(updates[r]) = 1

\* C5 witness: of three candidates the first failed, the second succeeded in
\* both lookups, the third was never requested, and the update went out
C5_Witness ==
    \E r \in Jobs :
        /\ pc[r] = "done"
        /\ Len(job[r].candidates) = 3
        /\ Len(calls[r]) >= 4
        /\ calls[r][1].kind = "geocode" /\ ~calls[r][1].ok
        /\ calls[r][2].kind = "geocode" /\ calls[r][2].ok
        /\ TzSuccessAt(r, 3)
        /\ calls[r][4].kind = "post"
        /\ updates[r] = << <<StrV(C1s), TxtV("America/Los_Angeles"),
                             TxtV("Pacific Daylight Time")>> >>

\* C6: when no candidate resolved and the request's state, trimmed and
\* upper-cased, is a key of STATE_TZ, update_contact is called with the
\* table's value for that state as tz_id and None as tz_name.
C6_StateFallback ==
    \A r \in Jobs :
        (Accepted(r) /\ AllFailed(r) /\ RequestState(r) \in DOMAIN STATE_TZ) =>
            /\ pc[r] = "update" =>
                  /\ job[r].tz_id = TxtV(STATE_TZ[RequestState(r)])
                  /\ job[r].tz_name = NoneV
            /\ pc[r] \in {"post", "done"} =>
                  updates[r] = << <<RequestContactId(r), TxtV(STATE_TZ[RequestState(r)]),
                                    NoneV>> >>

\* C6 witness: {"id": "c2", "state": "az"}, the geocode failed, and the
\* update was called with ("c2", "America/Phoenix", None)
C6_Witness ==
    \E r \in Jobs :
        /\ body[r] = [EmptyBody EXCEPT !.id = StrV(C2s), !.state = StrV(<<"a", "z">>)]
        /\ pc[r] \in {"post", "done"}
        /\ AllFailed(r)
        /\ calls[r][1].kind = "geocode" /\ ~calls[r][1].ok
        /\ updates[r] = << <<StrV(C2s), TxtV("America/Phoenix"), NoneV>> >>

\* C7: when no candidate resolved and the state is not a key of STATE_TZ,
\* update_contact is never called, no field-listing or contact-write request
\* is issued, and the job ends having printed the error and nothing else.
C7_UnresolvedNoUpdate ==
    \A r \in Jobs :
        (Accepted(r) /\ AllFailed(r) /\ RequestState(r) \notin DOMAIN STATE_TZ) =>
            /\ updates[r] = <<>>
            /\ \A k \in DOMAIN calls[r] : ~IsCrm(calls[r][k])
            /\ pc[r] \notin {"update", "post"}
            /\ pc[r] = "done" =>
                  printed[r] = << [line |-> "ERROR", err |-> "No geocoding results"] >>

\* C7 witness: two candidates with a state outside the table were both
\* tried, one failing in the time-zone lookup, and the job ended unresolved
C7_Witness ==
    \E r \in Jobs :
        /\ pc[r] = "done"
        /\ RequestState(r) = <<"Z", "Z">>
        /\ Len(SelectSeq(calls[r], IsGeocode)) = 2
        /\ \E k \in DOMAIN calls[r] : calls[r][k].kind = "timezone"
        /\ AllFailed(r)
        /\ updates[r] = <<>>

-----------------------------------------------------------------------------
(* Properties of the field resolver and the contact updater *)

IsList(c) == c.kind = "list"
IsPost(c) == c.kind = "post"

\* the ids of the fields that a listing endpoint answering 200 lists under
\* a label or name equal to TZ_FIELD_LABEL up to case and outer blanks
ListedTzFieldIds ==
    { FieldsOf(listing[e].json)[i].id :
        <<e, i>> \in { x \in (DOMAIN listing) \X (1 .. 2) :
                         /\ listing[x[1]].kind = "http"
                         /\ listing[x[1]].status = 200
                         /\ x[2] \in DOMAIN FieldsOf(listing[x[1]].json)
                         /\ LET f == FieldsOf(listing[x[1]].json)[x[2]]
                            IN  Lower(Strip(OrEmpty(Or(f.label, Or(f.name, StrV(<<>>))))))
                                    = Lower(Strip(TZ_FIELD_LABEL)) } }

\* C8 (as claimed): with TZ_FIELD_ID unset, the first call of
\* ensure_tz_field_id queries the listing endpoints, starting with the first,
\* and returns the id of a listed field whose label matches, if there is one.
C8_FirstCallDiscovers ==
    \A r \in Jobs :
        (job[r].ensure_call = "first" /\ TZ_FIELD_ID_ENV = NoneV) =>
            LET lst == SelectSeq(calls[r], IsList)
            IN  /\ lst # <<>>
                /\ lst[1].url = LISTING_URLS[1]
                /\ ListedTzFieldIds # {} => job[r].cf_id \in ListedTzFieldIds

\* C9: all calls of ensure_tz_field_id in the process return the same value;
\* a call made after another has completed issues no listing request; with
\* TZ_FIELD_ID configured no call issues one and the value is the
\* configured id.
C9_EnsureIdempotent ==
    /\ Cardinality(ensure_results) <= 1
    /\ \A r \in Jobs :
          /\ job[r].ensure_call # "none" => job[r].cf_id \in ensure_results
          /\ job[r].ensure_call = "later" => SelectSeq(calls[r], IsList) = <<>>
          /\ TZ_FIELD_ID_ENV # NoneV =>
                /\ SelectSeq(calls[r], IsList) = <<>>
                /\ ensure_results \subseteq {TZ_FIELD_ID_ENV}

\* C9 witness: a job whose call of ensure_tz_field_id was not the first of
\* the process has ended, with TZ_FIELD_ID unset
C9_Witness ==
    \E r \in Jobs :
        /\ job[r].ensure_call = "later"
        /\ pc[r] = "done"
        /\ TZ_FIELD_ID_ENV = NoneV
        /\ ensure_results = {NoneV}

\* the custom-field entries of a posted JSON body
CustomFields(js) == IF "customFields" \in DOMAIN js THEN js.customFields ELSE <<>>

\* C10: every contact write carries id = contact_id and timeZone = tz_id of
\* the update_contact call; the entry (field id, tz_id) iff the resolver
\* returned an id; the entry (TZ_NAME_FIELD_ID, tz_name) iff that variable
\* is set and tz_name is non-empty; no other entry; and all writes of one
\* update carry the same body.
C10_WritePayload ==
    \A r \in Jobs :
        \A k \in DOMAIN calls[r] :
            IsPost(calls[r][k]) =>
                LET js   == calls[r][k].json
                    u    == updates[r][1]
                    cf   == CustomFields(js)
                    tzcf == [id |-> job[r].cf_id, value |-> u[2]]
                    nmcf == [id |-> TZ_NAME_FIELD_ID, value |-> u[3]]
                IN  /\ Len(updates[r]) = 1
                    /\ js.id = u[1]
                    /\ js.timeZone = u[2]
                    /\ (\E i \in DOMAIN cf : cf[i] = tzcf) <=> job[r].cf_id # NoneV
                    /\ (\E i \in DOMAIN cf : cf[i] = nmcf)
                          <=> (TZ_NAME_FIELD_ID # NoneV /\ u[3] # NoneV /\ u[3] # TxtV(""))
                    /\ \A i \in DOMAIN cf : cf[i] \in {tzcf, nmcf}
                    /\ Len(cf) <= 2
                    /\ \A m \in DOMAIN calls[r] :
                          IsPost(calls[r][m]) => calls[r][m].json = js

\* C10 witness: two contact writes of one update went out, each with both
\* custom-field entries
C10_Witness ==
    \E r \in Jobs :
        /\ Len(SelectSeq(calls[r], IsPost)) >= 2
        /\ LET js == calls[r][Len(calls[r])].json
           IN  /\ IsPost(calls[r][Len(calls[r])])
               /\ Len(CustomFields(js)) = 2
               /\ js.customFields[1] = [id |-> TxtV("fld_env"), value |-> js.timeZone]
               /\ js.customFields[2] = [id |-> TxtV("fld_name"),
                                        value |-> TxtV("Pacific Daylight Time")]

\* the resolver was called for request r and returned None
ResolverNotFound(r) == job[r].ensure_call # "none" /\ job[r].cf_id = NoneV

\* C11 (as claimed): when the field resolver returns not-found, the contact
\* write carries the timeZone attribute only, with no custom-field updates
\* at all.
C11_NotFoundNoCustomFields ==
    \A r \in Jobs :
        ResolverNotFound(r) =>
            \A k \in DOMAIN calls[r] :
                IsPost(calls[r][k]) => "customFields" \notin DOMAIN calls[r][k].json

\* C11 (amended): when the field resolver returns not-found, update_contact
\* goes on to its writes, the job does not end before one has been issued,
\* every write carries the contact id and timeZone = tz_id, and the body has
\* no entry for the time-zone field: its only possible custom-field entry is
\* (TZ_NAME_FIELD_ID, tz_name), there when that variable is set and tz_name
\* is non-empty.
C11_NotFoundStillWrites ==
    \A r \in Jobs :
        ResolverNotFound(r) =>
            LET u    == updates[r][1]
                nmcf == [id |-> TZ_NAME_FIELD_ID, value |-> u[3]]
                named == TZ_NAME_FIELD_ID # NoneV /\ u[3] # NoneV /\ u[3] # TxtV("")
            IN  /\ pc[r] \in {"post", "done"}
                /\ pc[r] = "done" => SelectSeq(calls[r], IsPost) # <<>>
                /\ \A k \in DOMAIN calls[r] :
                      IsPost(calls[r][k]) =>
                          LET js == calls[r][k].json
                          IN  /\ js.id = u[1]
                              /\ js.timeZone = u[2]
                              /\ CustomFields(js) = IF named THEN <<nmcf>> ELSE <<>>

\* C11 witness: after a not-found answer of the resolver a write went out
\* whose only custom-field entry is the one for the zone's name
C11_Witness ==
    \E r \in Jobs :
        /\ ResolverNotFound(r)
        /\ calls[r] # <<>>
        /\ LET c == calls[r][Len(calls[r])]
           IN  /\ IsPost(c)
               /\ CustomFields(c.json) = << [id |-> TxtV("fld_name"),
                                             value |-> TxtV("Pacific Daylight Time")] >>

\* the contact writes of request r, in the order they were issued
Posts(r) == SelectSeq(calls[r], IsPost)

\* C12 (as claimed): a contact-write response with a non-error HTTP status
\* (below 400) makes the update succeed: the write is logged as the
\* successful one and no further variant is to be tried.
C12_NonErrorStatusSucceeds ==
    \A r \in Jobs :
        (job[r].status.t = "int" /\ job[r].status.v < 400) =>
            /\ pc[r] = "done"
            /\ Posts(r)[Len(Posts(r))].ok

\* C12 (amended): the contact writes of one update go to the endpoint
\* variants in their fixed order, each at most once; a response with a
\* status below 300, and no other, makes the update succeed, and the
\* successful write is the last one; after a write that failed (status of
\* 300 or more, or a transport error) the job is at the next variant, or
\* has ended when it was the last.
C12_VariantOrder ==
    \A r \in Jobs :
        LET ps == Posts(r)
            n  == Len(ps)
        IN  /\ n <= Len(CONTACT_URLS)
            /\ \A k \in DOMAIN ps : ps[k].url = CONTACT_URLS[k]
            /\ \A k \in DOMAIN ps : ps[k].ok => k = n /\ pc[r] = "done"
            /\ n > 0 =>
                  /\ ps[n].ok <=> (job[r].status.t = "int" /\ job[r].status.v < 300)
                  /\ (~ps[n].ok /\ n < Len(CONTACT_URLS)) =>
                        pc[r] = "post" /\ job[r].url = n + 1
                  /\ (~ps[n].ok /\ n = Len(CONTACT_URLS)) => pc[r] = "done"
            /\ (n = 0 /\ pc[r] = "post") => job[r].url = 1

\* C12 witness: the third variant succeeded after the first two had failed
C12_Witness ==
    \E r \in Jobs :
        /\ Len(Posts(r)) = 3
        /\ ~Posts(r)[1].ok /\ ~Posts(r)[2].ok /\ Posts(r)[3].ok
        /\ job[r].status = IntV(200)
        /\ pc[r] = "done"

\* every endpoint variant of the update of request r has been tried and
\* has failed
VariantsExhausted(r) ==
    /\ Len(Posts(r)) = Len(CONTACT_URLS)
    /\ \A k \in DOMAIN Posts(r) : ~Posts(r)[k].ok

\* the lines request r printed that report a success
SuccessLines(r) ==
    SelectSeq(printed[r], LAMBDA l : l.line \in {"OK", "Updated"})

\* the lines request r printed from the except clause of its job
ErrorLines(r) == SelectSeq(printed[r], LAMBDA l : l.line = "ERROR")

\* everything the process holds for request q
Slot(q) == <<pc[q], body[q], response[q], tasks[q], job[q], updates[q], calls[q],
             printed[q]>>

\* C13: when every endpoint variant has failed, the job has ended having
\* printed the failure once and no success line, after one call of
\* update_contact and one request per variant, the response already sent
\* stands; the step that ends it changes nothing of any other request nor
\* the cache, and the job issues nothing afterwards.
C13_ExhaustedIsLoggedFailure ==
    /\ [](\A r \in Jobs :
             VariantsExhausted(r) =>
                 /\ pc[r] = "done"
                 /\ ErrorLines(r) = << [line |-> "ERROR",
                                        err |-> "All contact POST variants failed"] >>
                 /\ printed[r][Len(printed[r])].line = "ERROR"
                 /\ SuccessLines(r) = <<>>
                 /\ Len(updates[r]) = 1
                 /\ response[r] = [ok |-> TRUE, queued |-> TRUE])
    /\ [][\A r \in Jobs :
             /\ (~VariantsExhausted(r) /\ VariantsExhausted(r)') =>
                    /\ \A q \in Jobs \ {r} : Slot(q)' = Slot(q)
                    /\ response'[r] = response[r]
                    /\ cache_field_ids' = cache_field_ids
             /\ VariantsExhausted(r) => Slot(r)' = Slot(r)]_vars

\* C13 witness: the update of one request has failed on every variant and
\* the update of another request, whose job was running at the same time,
\* has succeeded
C13_Witness ==
    \E r, q \in Jobs :
        /\ r # q
        /\ VariantsExhausted(r)
        /\ pc[r] = "done"
        /\ pc[q] = "done"
        /\ Posts(q) # <<>>
        /\ Posts(q)[Len(Posts(q))].ok
        /\ SuccessLines(q) # <<>>

\* C14 (as claimed): the empty body {} is answered with exactly
\* {"ok": false, "error": "missing contact_id or address parts"} and no
\* background task is scheduled.
C14_EmptyPayloadResponse ==
    \A r \in Jobs :
        (Received(r) /\ body[r] = EmptyBody) =>
            /\ response[r] = [ok |-> FALSE, error |-> "missing contact_id or address parts"]
            /\ tasks[r] = <<>>

\* everything of the process but the answer of GET /health
ProcessState ==
    <<TZ_FIELD_ID_ENV, TZ_NAME_FIELD_ID, listing, cache_field_ids, ensure_results,
      pc, body, response, tasks, job, updates, calls, printed>>

\* C15: GET /health answers {"ok": true} whatever state the process is in,
\* and serving it issues no outbound request and changes no state, the
\* field-id cache included.
C15_HealthAlwaysOk ==
    /\ [](health_response \in {NoneV, [ok |-> TRUE]})
    /\ [][health_response' # health_response =>
             /\ health_response' = [ok |-> TRUE]
             /\ ProcessState' = ProcessState]_vars
    /\ [](ENABLED Health)

\* C15 witness: GET /health has been answered and a job is in the middle of
\* its contact writes, after an outbound request of its own has failed
C15_Witness ==
    /\ health_response = [ok |-> TRUE]
    /\ \E r \in Jobs :
          /\ pc[r] = "post"
          /\ \E k \in DOMAIN calls[r] : IsGeocode(calls[r][k]) /\ ~calls[r][k].ok

\* request r has called ensure_tz_field_id
Resolved(r) == job[r].ensure_call # "none"

\* C16: with background jobs interleaving on the shared cache, all calls of
\* ensure_tz_field_id return one value, and the cache entry "tz", once
\* there, keeps the value it holds.
C16_SharedCacheStable ==
    /\ [](/\ Cardinality(ensure_results) <= 1
          /\ \A r, q \in Jobs :
                (Resolved(r) /\ Resolved(q)) => job[r].cf_id = job[q].cf_id)
    /\ []["tz" \in DOMAIN cache_field_ids =>
             /\ "tz" \in DOMAIN cache_field_ids'
             /\ cache_field_ids'["tz"] = cache_field_ids["tz"]]_vars

\* C16 witness: two jobs are in their contact writes at the same time, both
\* having called ensure_tz_field_id with TZ_FIELD_ID unset
C16_Witness ==
    \E r, q \in Jobs :
        /\ r # q
        /\ pc[r] = "post" /\ pc[q] = "post"
        /\ job[r].ensure_call = "first" /\ job[q].ensure_call = "later"
        /\ Posts(r) # <<>> /\ Posts(q) # <<>>
        /\ TZ_FIELD_ID_ENV = NoneV

IsTimezone(c) == c.kind = "timezone"

\* C17: a job issues at most one geocode request per candidate, in list
\* order, of at most four candidates; a time-zone request only right after
\* a successful geocode of the same candidate, and never twice for one
\* candidate; after a failed geocode the next request is not a time-zone
\* request; at most one pass over the listing endpoints; at most one write
\* per endpoint variant; a job that has ended has printed its result or its
\* failure; and every job that was scheduled ends.
C17_JobTerminatesBounded ==
    /\ [](\A r \in Jobs :
             LET log == calls[r]
                 gs  == SelectSeq(log, IsGeocode)
                 tzs == SelectSeq(log, IsTimezone)
                 ls  == SelectSeq(log, IsList)
                 ps  == SelectSeq(log, IsPost)
             IN  /\ Len(job[r].candidates) <= 4
                 /\ Len(gs) <= Len(job[r].candidates)
                 /\ \A k, m \in DOMAIN gs : k # m => gs[k].arg # gs[m].arg
                 /\ \A k \in DOMAIN gs : \E i \in DOMAIN job[r].candidates :
                        gs[k].arg = job[r].candidates[i]
                 /\ \A k, m \in DOMAIN tzs : k # m => tzs[k].for # tzs[m].for
                 /\ \A k \in DOMAIN log :
                        IsTimezone(log[k]) =>
                            /\ k > 1
                            /\ IsGeocode(log[k - 1])
                            /\ log[k - 1].ok
                            /\ log[k - 1].arg = log[k].for
                 /\ \A k \in DOMAIN log :
                        (IsGeocode(log[k]) /\ ~log[k].ok /\ k < Len(log)) =>
                            ~IsTimezone(log[k + 1])
                 /\ Len(ls) <= Len(LISTING_URLS)
                 /\ \A k, m \in DOMAIN ls : k # m => ls[k].url # ls[m].url
                 /\ Len(ps) <= Len(CONTACT_URLS)
                 /\ \A k, m \in DOMAIN ps : k # m => ps[k].url # ps[m].url
                 /\ pc[r] = "done" =>
                        /\ printed[r] # <<>>
                        /\ printed[r][Len(printed[r])].line \in {"OK", "ERROR"})
    /\ \A r \in Jobs : (pc[r] = "queued") ~> (pc[r] = "done")

\* C17 witness: a job has ended after geocoding all four candidates of its
\* request, two of them without success, and after failing on every
\* endpoint variant of the contact write
C17_Witness ==
    \E r \in Jobs :
        /\ pc[r] = "done"
        /\ Len(SelectSeq(calls[r], IsGeocode)) = 4
        /\ Len(SelectSeq(calls[r], IsTimezone)) = 2
        /\ Len(Posts(r)) = 4
        /\ \A k \in DOMAIN Posts(r) : ~Posts(r)[k].ok

\* the listing requests of slot r
Lists(r) == SelectSeq(calls[r], IsList)

\* field f carries the target label, up to case and outer blanks, as its
\* label or, without a label, as its name
HasTargetLabel(f) ==
    LET shown == IF Truthy(f.label) THEN f.label.v
                 ELSE IF Truthy(f.name) THEN f.name.v ELSE <<>>
    IN  Lower(Strip(shown)) = Lower(Strip(TZ_FIELD_LABEL))

\* the fields listed by the answer of endpoint e, under the first of the
\* three container keys that is not empty
ListedFields(e) ==
    LET j == listing[e].json
    IN  IF j.customFields # <<>> THEN j.customFields
        ELSE IF j.fields # <<>> THEN j.fields ELSE j.data

\* endpoint e answered with a list whose first field with the target label
\* has an id
YieldsField(e) ==
    /\ listing[e].kind = "http"
    /\ listing[e].status = 200
    /\ \E i \in DOMAIN ListedFields(e) :
          /\ HasTargetLabel(ListedFields(e)[i])
          /\ \A m \in 1 .. (i - 1) : ~HasTargetLabel(ListedFields(e)[m])
          /\ ListedFields(e)[i].id # NoneV

\* the id of the first field with the target label in the answer of e
YieldedId(e) ==
    LET i == CHOOSE i \in DOMAIN ListedFields(e) :
                 /\ HasTargetLabel(ListedFields(e)[i])
                 /\ \A m \in 1 .. (i - 1) : ~HasTargetLabel(ListedFields(e)[m])
    IN  ListedFields(e)[i].id

NonEmptyAt(d, keys) == { k \in DOMAIN keys : Truthy(d[keys[k]]) }

\* the string form of the value of d under the first of keys that is
\* non-empty in d
FirstNonEmpty(d, keys) ==
    LET k == CHOOSE k \in NonEmptyAt(d, keys) : \A m \in NonEmptyAt(d, keys) : k <= m
    IN  PyStr(d[keys[k]])

\* what C19 says get_first(b, keys) is
ExpectedFirst(b, keys) ==
    IF NonEmptyAt(b, keys) # {} THEN FirstNonEmpty(b, keys)
    ELSE IF b.contact.t = "dict" /\ NonEmptyAt(b.contact.v, keys) # {}
         THEN FirstNonEmpty(b.contact.v, keys)
         ELSE NoneV

\* C19: get_first gives the first non-empty value among the top-level keys
\* in key order, in its string form; when every listed top-level key is
\* absent or empty, the first non-empty one among the same keys of the
\* nested contact mapping; else None.  Seen on every value the handler
\* takes with it: the contact id (whose absence rejects the request), the
\* postal code, the city, the state and the address.
C19_GetFirst ==
    \A r \in Jobs :
        Received(r) =>
            LET b  == body[r]
                id == ExpectedFirst(b, <<"contact_id", "id">>)
            IN  /\ pc[r] = "rejected" <=> id = NoneV
                /\ pc[r] # "rejected" =>
                      /\ job[r].contact_id = id
                      /\ job[r].zip_code = OrEmpty(ExpectedFirst(b, <<"postal_code", "zip">>))
                      /\ job[r].city = OrEmpty(ExpectedFirst(b, <<"city">>))
                      /\ job[r].address = OrEmpty(ExpectedFirst(b, <<"address">>))
                      /\ job[r].state =
                            Upper(Strip(OrEmpty(ExpectedFirst(b, <<"state">>))))

\* C19 witness: a top-level id was taken although the nested mapping has a
\* contact_id, and an empty top-level city fell through to the nested one
C19_Witness ==
    \E r \in Jobs :
        /\ Received(r)
        /\ body[r].contact_id = NoneV
        /\ body[r].id = StrV(C2s)
        /\ body[r].city = StrV(<<>>)
        /\ body[r].contact.t = "dict"
        /\ body[r].contact.v.contact_id = StrV(C3s)
        /\ job[r].contact_id = StrV(C2s)
        /\ job[r].city = <<"B", "o", "i">>

\* the time-zone ids the lookups of request r have returned before
\* position k of its log
LookedUpBefore(r, k) ==
    { calls[r][m].result.v[1] : m \in { m \in 1 .. (k - 1) : TzSuccessAt(r, m) } }

\* the state-table value for the state of request r, if it has one
StateTableValue(r) ==
    LET st == Upper(Strip(OrEmpty(ExpectedFirst(body[r], <<"state">>))))
    IN  IF st \in DOMAIN STATE_TZ THEN {TxtV(STATE_TZ[st])} ELSE {}

\* C20: with jobs in flight at the same time, every contact write carries
\* the contact id of its own request and a non-empty timeZone that a
\* time-zone lookup of the same job returned or that the state table holds
\* for the state of the same request, and a job calls update_contact at
\* most once.
C20_WritesOwnRequest ==
    \A r \in Jobs :
        /\ Len(updates[r]) <= 1
        /\ \A k \in DOMAIN calls[r] :
              IsPost(calls[r][k]) =>
                  LET js == calls[r][k].json
                  IN  /\ js.id = ExpectedFirst(body[r], <<"contact_id", "id">>)
                      /\ Truthy(js.id)
                      /\ Truthy(js.timeZone)
                      /\ js.timeZone \in LookedUpBefore(r, k) \cup StateTableValue(r)

\* C20 witness: two jobs are in their contact writes at the same time, for
\* different contacts, one with a zone it looked up and one with the zone
\* of the state table
C20_Witness ==
    \E r, q \in Jobs :
        /\ pc[r] = "post" /\ pc[q] = "post"
        /\ Posts(r) # <<>> /\ Posts(q) # <<>>
        /\ Posts(r)[1].json.id = StrV(C1s)
        /\ Posts(r)[1].json.timeZone = TxtV("America/Los_Angeles")
        /\ Posts(q)[1].json.id = StrV(C2s)
        /\ Posts(q)[1].json.timeZone = TxtV("America/Phoenix")
        /\ AllFailed(q)

====
